---- MODULE Spec2Model ----
(***************************************************************************)
(* Retrieval and ranking engine of the RFP knowledge base (src/lib/kb.ts). *)
(*                                                                         *)
(* Text is modelled as a sequence of one-character strings, so that the    *)
(* normalisers and the garbage predicate work on characters as the code    *)
(* does.  An absent text field and the empty string are both <<>>: every   *)
(* use in kb.ts goes through norm() or a truthiness test, which do not     *)
(* tell them apart.                                                        *)
(*                                                                         *)
(* Scores are fixed-point: semanticScore, lexicalScore and score are       *)
(* integers in units of 1/ScoreOne.  Cosine and the Dice coefficient are   *)
(* computed to 1/1000 (rounded down) and scaled by 10, so the fusion       *)
(* 0.7 * semantic + 0.3 * lexical is exact in these units.                 *)
(***************************************************************************)
EXTENDS Integers, Sequences, FiniteSets, TLC

\* ------------------------------------------------------------------ bounds
MaxKb == 2          \* longest stored corpus drawn by Init
MaxLimit == 2       \* largest qaLimit / contextLimit a caller passes
MaxItems == 3       \* longest array handed to sanitizeKb / gptFilter
MaxStore == 2       \* longest stored corpus when requests write to it
NumProcs == 2       \* concurrent callers of updateOrInsertAnswer
MaxAwaitKb == 1     \* longest stored corpus when the load is a step of its own

\* ------------------------------------------------------------- characters
Lowers == << "a","b","c","d","e","f","g","h","i","j","k","l","m",
             "n","o","p","q","r","s","t","u","v","w","x","y","z" >>
Uppers == << "A","B","C","D","E","F","G","H","I","J","K","L","M",
             "N","O","P","Q","R","S","T","U","V","W","X","Y","Z" >>
DigitChars == {"0","1","2","3","4","5","6","7","8","9"}

Range(s) == { s[i] : i \in DOMAIN s }


Min(a, b) == IF a <= b THEN a ELSE b
Max(a, b) == IF a >= b THEN a ELSE b

UpperChars == Range(Uppers)
LowerChars == Range(Lowers)
LowerOf == [ c \in UpperChars |-> Lowers[CHOOSE i \in DOMAIN Uppers : Uppers[i] = c] ]

\* String.prototype.toLowerCase, one character
LowerChar(c) == IF c \in UpperChars THEN LowerOf[c] ELSE c

\* String.prototype.toLowerCase
toLowerCase(s) == [ i \in DOMAIN s |-> LowerChar(s[i]) ]

\* the regular-expression class \s
SpaceChars == {" ", "\t", "\n"}
IsSpace(c) == c \in SpaceChars

\* the regular-expression class \w
WordChars == Range(Lowers) \cup Range(Uppers) \cup DigitChars \cup {"_"}
IsWordChar(c) == c \in WordChars

\* the regular-expression assertion \b at offset i (0..Len(s)) of s
WordBoundary(s, i) ==
  LET before == i >= 1 /\ i <= Len(s) /\ IsWordChar(s[i])
      after  == i + 1 <= Len(s) /\ IsWordChar(s[i + 1])
  IN  before # after

\* case-insensitive match of the literal lit (lower case) at offset i of s
LitAt(s, i, lit) ==
  /\ i + Len(lit) <= Len(s)
  /\ \A k \in DOMAIN lit : LowerChar(s[i + k]) = lit[k]

\* offset after the longest run of \s starting at offset i
RECURSIVE SkipSpaces(_, _)
SkipSpaces(s, i) ==
  IF i + 1 <= Len(s) /\ IsSpace(s[i + 1]) THEN SkipSpaces(s, i + 1) ELSE i

\* s contains lit (lower case) as a substring, ignoring case
Contains(s, lit) == \E i \in 0 .. Len(s) : LitAt(s, i, lit)

\* String.prototype.trim
RECURSIVE TrimLeft(_)
TrimLeft(s) == IF s # <<>> /\ IsSpace(Head(s)) THEN TrimLeft(Tail(s)) ELSE s
RECURSIVE TrimRight(_)
TrimRight(s) ==
  IF s # <<>> /\ IsSpace(s[Len(s)]) THEN TrimRight(SubSeq(s, 1, Len(s) - 1)) ELSE s
trim(s) == TrimRight(TrimLeft(s))

\* replace(/\s+/g, " ")
RECURSIVE CollapseSpaces(_)
CollapseSpaces(s) ==
  IF s = <<>> THEN <<>>
  ELSE IF IsSpace(Head(s))
       THEN <<" ">> \o CollapseSpaces(SubSeq(s, SkipSpaces(s, 0) + 1, Len(s)))
       ELSE <<Head(s)>> \o CollapseSpaces(Tail(s))

\* replace(/\s+/g, "")
RemoveSpaces(s) == SelectSeq(s, LAMBDA c : ~IsSpace(c))


\* ------------------------------------------------------------ normalisers
FullForm == << "l","i","c","e","n","s","e","d"," ","s","o","c","i","a","l"," ",
               "w","o","r","k","e","r","s" >>
UpriseHealth == << "U","p","r","i","s","e"," ","H","e","a","l","t","h" >>
HealthWorks == << "h","e","a","l","t","h","w","o","r","k","s" >>
Claremont == << "c","l","a","r","e","m","o","n","t" >>
Behavioral == << "b","e","h","a","v","i","o","r","a","l" >>
Health == << "h","e","a","l","t","h" >>

\* length of the match of /\blsws?\b/i at offset i of s, 0 when there is none
AliasMatchLen(s, i) ==
  IF LitAt(s, i, <<"l","s","w">>) /\ WordBoundary(s, i)
  THEN IF LitAt(s, i + 3, <<"s">>) /\ WordBoundary(s, i + 4) THEN 4
       ELSE IF WordBoundary(s, i + 3) THEN 3 ELSE 0
  ELSE 0

RECURSIVE ApplyAliasesFrom(_, _)
ApplyAliasesFrom(s, i) ==
  IF i >= Len(s) THEN <<>>
  ELSE LET m == AliasMatchLen(s, i)
       IN  IF m > 0 THEN FullForm \o ApplyAliasesFrom(s, i + m)
           ELSE <<s[i + 1]>> \o ApplyAliasesFrom(s, i + 1)

\* applyAliases: expand the abbreviation LSW / LSWs
applyAliases(text) == ApplyAliasesFrom(text, 0)

\* norm: aliases, then whitespace runs to one space, then trim
norm(s) == trim(CollapseSpaces(applyAliases(s)))

\* end offset of the match of the vendor pattern at offset i of s, -1 when none.
\* Alternatives are tried in the order of the pattern.
VendorEnd(s, i) ==
  LET hw(k) == LET j == SkipSpaces(s, k)
               IN  IF LitAt(s, j, HealthWorks) /\ WordBoundary(s, j + Len(HealthWorks))
                   THEN j + Len(HealthWorks) ELSE -1
      \* H.?C\s*HealthWorks, the optional character taken first
      a1  == IF LitAt(s, i, <<"h">>) /\ i + 2 <= Len(s) /\ s[i + 2] # "\n"
                /\ LitAt(s, i + 2, <<"c">>)
             THEN hw(i + 3) ELSE -1
      a1b == IF LitAt(s, i, <<"h","c">>) THEN hw(i + 2) ELSE -1
      \* HMC\s*HealthWorks
      a2  == IF LitAt(s, i, <<"h","m","c">>) THEN hw(i + 3) ELSE -1
      \* HMC\b and IBH\b
      a3  == IF LitAt(s, i, <<"h","m","c">>) /\ WordBoundary(s, i + 3) THEN i + 3 ELSE -1
      a4  == IF LitAt(s, i, <<"i","b","h">>) /\ WordBoundary(s, i + 3) THEN i + 3 ELSE -1
      \* Claremont\s+Behavioral\s+Health
      a5  == IF LitAt(s, i, Claremont)
             THEN LET j == SkipSpaces(s, i + Len(Claremont))
                  IN  IF j > i + Len(Claremont) /\ LitAt(s, j, Behavioral)
                      THEN LET k == SkipSpaces(s, j + Len(Behavioral))
                           IN  IF k > j + Len(Behavioral) /\ LitAt(s, k, Health)
                                  /\ WordBoundary(s, k + Len(Health))
                               THEN k + Len(Health) ELSE -1
                      ELSE -1
             ELSE -1
  IN  IF LowerChar(s[i + 1]) \notin {"h", "i", "c"} \/ ~WordBoundary(s, i) THEN -1
      ELSE IF a1 >= 0 THEN a1
      ELSE IF a1b >= 0 THEN a1b
      ELSE IF a2 >= 0 THEN a2
      ELSE IF a3 >= 0 THEN a3
      ELSE IF a4 >= 0 THEN a4
      ELSE a5

RECURSIVE VendorFrom(_, _)
VendorFrom(s, i) ==
  IF i >= Len(s) THEN <<>>
  ELSE LET e == VendorEnd(s, i)
       IN  IF e > i THEN UpriseHealth \o VendorFrom(s, e)
           ELSE <<s[i + 1]>> \o VendorFrom(s, i + 1)

\* normalizeVendorNames: legacy organisation names to the canonical one
normalizeVendorNames(text) == IF text = <<>> THEN text ELSE VendorFrom(text, 0)

\* ------------------------------------------------------- hygiene predicate
PunctChars == {".", ",", ";", ":", "!", "?", "(", ")", "[", "]", "-", "_", "/", "\\"}

\* /^(n\/a|na|none|null|tbd|n\s*a|n-?\/-?a|\-)$/ on a lower-case string
IsPlaceholder(t) ==
  \/ t \in { <<"n","/","a">>, <<"n","a">>, <<"n","o","n","e">>, <<"n","u","l","l">>,
             <<"t","b","d">>, <<"-">>,
             <<"n","-","/","a">>, <<"n","/","-","a">>, <<"n","-","/","-","a">> }
  \/ /\ Len(t) >= 2
     /\ t[1] = "n"
     /\ t[Len(t)] = "a"
     /\ \A i \in 2 .. Len(t) - 1 : IsSpace(t[i])

\* isGarbageAnswer
isGarbageAnswer(a) ==
  LET t == toLowerCase(norm(a))
  IN  \/ t = <<>>
      \/ Len(t) < 2
      \/ IsPlaceholder(t)
      \/ (Len(t) = 1 /\ t[1] \in LowerChars)
      \/ Contains(t, <<"l","o","r","e","m"," ","i","p","s","u","m">>)
      \/ Contains(t, <<"d","u","m","m","y">>)
      \/ Contains(t, <<"t","e","s","t">>)
      \/ \A i \in DOMAIN t : t[i] \in PunctChars \/ IsSpace(t[i])

\* isQaKind / isContextKind: kind is "absent", "qa", "context" or another label
isQaKind(item) == item.kind \in {"absent", "qa"}
isContextKind(item) == item.kind = "context"

\* ------------------------------------------------------------- embeddings
(***************************************************************************)
(* An array entry is [isNum, v]: a number v, or a value Number() turns     *)
(* into NaN (a word, null, an object).  A stored embedding is              *)
(*   [tag |-> "absent" | "array" | "string", json, val]                    *)
(* where, for a string, json is what JSON.parse does with it ("invalid":   *)
(* throws, "nonarray": a value that is no array, "array": the entries      *)
(* val); json is "none" for the other tags.  A query embedding is absent   *)
(* or an array.                                                            *)
(***************************************************************************)
Num(k) == [isNum |-> TRUE, v |-> k]
NotANumber == [isNum |-> FALSE, v |-> 0]
NoEmbedding == [tag |-> "absent", json |-> "none", val |-> <<>>]
ArrayEmbedding(entries) == [tag |-> "array", json |-> "none", val |-> entries]
StringEmbedding(outcome, entries) == [tag |-> "string", json |-> outcome, val |-> entries]

\* Number(n) || 0
NumberOrZero(n) == IF n.isNum THEN n.v ELSE 0

MapSeq(s, Op(_)) == [ i \in DOMAIN s |-> Op(s[i]) ]

\* slice bug variant: one element too many
Slice0OffByOne(s, end) == SubSeq(s, 1, Min(end + 1, Len(s)))

\* Array.prototype.slice(0, end)
Slice0(s, end) ==
  LET e == IF end < 0 THEN Max(Len(s) + end, 0) ELSE Min(end, Len(s))
  IN  SubSeq(s, 1, e)

RECURSIVE SumTo(_, _)
SumTo(f, n) == IF n = 0 THEN 0 ELSE f[n] + SumTo(f, n - 1)

\* largest k in lo..hi with k * k <= n  (lo * lo <= n)
RECURSIVE SqrtBetween(_, _, _)
SqrtBetween(n, lo, hi) ==
  IF lo >= hi THEN lo
  ELSE LET mid == (lo + hi + 1) \div 2
       IN  IF mid * mid <= n THEN SqrtBetween(n, mid, hi)
           ELSE SqrtBetween(n, lo, mid - 1)

\* cosine bug variant: the dot product is not divided by the magnitudes
cosineDotOnly(a, b) ==
  IF Len(a) = 0 \/ Len(b) = 0 THEN 0
  ELSE 1000 * SumTo([ i \in 1 .. Min(Len(a), Len(b)) |->
                        NumberOrZero(a[i]) * NumberOrZero(b[i]) ],
                    Min(Len(a), Len(b)))

\* cosine, in thousandths rounded toward zero
cosine(a, b) ==
  IF Len(a) = 0 \/ Len(b) = 0 THEN 0
  ELSE LET n    == Min(Len(a), Len(b))
           ai   == [ i \in 1 .. n |-> NumberOrZero(a[i]) ]
           bi   == [ i \in 1 .. n |-> NumberOrZero(b[i]) ]
           dot  == SumTo([ i \in 1 .. n |-> ai[i] * bi[i] ], n)
           magA == SumTo([ i \in 1 .. n |-> ai[i] * ai[i] ], n)
           magB == SumTo([ i \in 1 .. n |-> bi[i] * bi[i] ], n)
       IN  IF magA * magB = 0
           THEN 1000 * dot                      \* denominator 0 || 1
           ELSE LET q == (1000000 * dot * dot) \div (magA * magB)
                    r == SqrtBetween(q, 0, 1000)
                IN  IF dot < 0 THEN 0 - r ELSE r

\* ------------------------------------------------------ lexical similarity
Bigrams(s) == [ i \in 1 .. Len(s) - 1 |-> << s[i], s[i + 1] >> ]

RemoveAt(s, i) == SubSeq(s, 1, i - 1) \o SubSeq(s, i + 1, Len(s))

\* bigrams of the second string matched one-to-one against those left of the first
RECURSIVE IntersectionSize(_, _)
IntersectionSize(left, second) ==
  IF second = <<>> THEN 0
  ELSE IF \E i \in DOMAIN left : left[i] = Head(second)
       THEN 1 + IntersectionSize(
                  RemoveAt(left, CHOOSE i \in DOMAIN left : left[i] = Head(second)),
                  Tail(second))
       ELSE IntersectionSize(left, Tail(second))

\* stringSimilarity.compareTwoStrings (Dice coefficient over character
\* bigrams), in thousandths rounded down
compareTwoStrings(first, second) ==
  LET f == RemoveSpaces(first)
      g == RemoveSpaces(second)
  IN  IF f = g THEN 1000
      ELSE IF Len(f) < 2 \/ Len(g) < 2 THEN 0
      ELSE (2000 * IntersectionSize(Bigrams(f), Bigrams(g)))
             \div (Len(f) + Len(g) - 2)

\* ----------------------------------------------------------------- scoring
SemanticWeight == 7     \* 0.7
LexicalWeight == 3      \* 0.3
ScoreOne == 1000 * (SemanticWeight + LexicalWeight)    \* the score 1.0

\* a || b on strings
OrElse(a, b) == IF a # <<>> THEN a ELSE b

\* the array scoreRowsForQuery makes of a row's embedding field
ParsedEmbedding(x) ==
  LET e == IF x.embedding.tag = "string"
           THEN IF x.embedding.json = "invalid" THEN ArrayEmbedding(<<>>)   \* catch
                ELSE IF x.embedding.json = "array" THEN ArrayEmbedding(x.embedding.val)
                ELSE NoEmbedding                                            \* no array
           ELSE x.embedding
  IN  IF e.tag = "array" THEN MapSeq(e.val, LAMBDA n : Num(NumberOrZero(n))) ELSE <<>>

\* reading queryEmbedding.length throws on an absent query embedding
ScoreThrows(x, queryEmbedding) ==
  Len(ParsedEmbedding(x)) > 0 /\ queryEmbedding.tag = "absent"

\* the fusion that makes finalScore: bug variant weighting the semantic term
\* in even when a side has no vector
FinalScoreAlwaysFused(embeddingLength, queryLength, semantic, lexical) ==
  (SemanticWeight * semantic + LexicalWeight * lexical)
    \div (SemanticWeight + LexicalWeight)

\* finalScore: 0.7 * semantic + 0.3 * lexical, or lexical alone
FinalScore(embeddingLength, queryLength, semantic, lexical) ==
  IF embeddingLength > 0 /\ queryLength > 0
  THEN (SemanticWeight * semantic + LexicalWeight * lexical)
         \div (SemanticWeight + LexicalWeight)
  ELSE lexical

\* lexicalText: question and answer of a Q&A row, the first non-empty of
\* content, answer, question of a context row
LexicalText(mode, question, answer, content) ==
  IF mode = "qa" THEN question \o <<" ">> \o answer
  ELSE OrElse(content, OrElse(answer, question))

\* semantic: cosine over the common prefix when both sides have a vector
Semantic(queryEmbedding, embeddingArray) ==
  IF queryEmbedding.tag = "array" /\ Len(queryEmbedding.val) > 0 /\ Len(embeddingArray) > 0
  THEN 10 * cosine(Slice0(queryEmbedding.val,
                          Min(Len(queryEmbedding.val), Len(embeddingArray))),
                   Slice0(embeddingArray,
                          Min(Len(queryEmbedding.val), Len(embeddingArray))))
  ELSE 0

\* lexical: Dice similarity of the normalised query and text, 0 without a query
Lexical(qNorm, lexicalText) ==
  IF qNorm # <<>> THEN 10 * compareTwoStrings(qNorm, toLowerCase(norm(lexicalText)))
  ELSE 0

\* the record the map callback returns
ScoredRow(x, question, answer, content, embeddingArray, queryLength, semantic, lexical) ==
  [ kind |-> x.kind, question |-> question, answer |-> answer, content |-> content,
    embedding |-> ArrayEmbedding(embeddingArray), source |-> x.source, pos |-> x.pos,
    score |-> FinalScore(Len(embeddingArray), queryLength, semantic, lexical),
    semanticScore |-> semantic, lexicalScore |-> lexical ]

\* the map callback once the fields are normalised and the embedding parsed
ScoreFields(x, queryEmbedding, mode, qNorm, question, answer, content, embeddingArray) ==
  ScoredRow(x, question, answer, content, embeddingArray, Len(queryEmbedding.val),
            Semantic(queryEmbedding, embeddingArray),
            Lexical(qNorm, LexicalText(mode, question, answer, content)))

\* the body of the map callback of scoreRowsForQuery
ScoreRow(x, queryEmbedding, queryText, mode) ==
  ScoreFields(x, queryEmbedding, mode, toLowerCase(norm(queryText)),
              norm(x.question), normalizeVendorNames(norm(x.answer)), norm(x.content),
              ParsedEmbedding(x))

\* sort bug variant: a row goes before the rows of equal score (not stable)
InsertBeforeEqual(sorted, x) ==
  LET k == Cardinality({ i \in DOMAIN sorted : sorted[i].score > x.score })
  IN  SubSeq(sorted, 1, k) \o <<x>> \o SubSeq(sorted, k + 1, Len(sorted))

\* Array.prototype.sort((a, b) => b.score - a.score): stable, descending
InsertByScore(sorted, x) ==
  LET k == Cardinality({ i \in DOMAIN sorted : sorted[i].score >= x.score })
  IN  SubSeq(sorted, 1, k) \o <<x>> \o SubSeq(sorted, k + 1, Len(sorted))

RECURSIVE SortByScore(_)
SortByScore(rows) ==
  IF rows = <<>> THEN <<>>
  ELSE InsertByScore(SortByScore(SubSeq(rows, 1, Len(rows) - 1)), rows[Len(rows)])

\* scoreRowsForQuery: [threw, rows]
scoreRowsForQuery(rows, queryEmbedding, queryText, mode) ==
  IF \E i \in DOMAIN rows : ScoreThrows(rows[i], queryEmbedding)
  THEN [ threw |-> TRUE, rows |-> <<>> ]
  ELSE [ threw |-> FALSE,
         rows |-> SortByScore(
                    MapSeq(rows, LAMBDA x : ScoreRow(x, queryEmbedding, queryText, mode))) ]

\* --------------------------------------------------------------- KB access
FetchOutcomes == { "ok", "network-error", "http-error", "invalid-json", "non-array" }

\* loadKb on one outcome of the fetch of the stored corpus: [threw, kb].
\* The fetch is awaited outside any try block, so its rejection propagates.
loadKb(fetch, stored) ==
  CASE fetch = "network-error" -> [ threw |-> TRUE, kb |-> <<>> ]
    [] fetch = "http-error"    -> [ threw |-> FALSE, kb |-> <<>> ]    \* !res.ok
    [] fetch = "invalid-json"  -> [ threw |-> FALSE, kb |-> <<>> ]    \* catch
    [] fetch = "non-array"     -> [ threw |-> FALSE, kb |-> <<>> ]
    [] OTHER                   -> [ threw |-> FALSE, kb |-> stored ]

\* ---------------------------------------------------------------- retrieval
\* pos is the row's index in the loaded array.  The code has no such field;
\* it is carried along so that the ordering properties can name corpus order.
WithPos(kb) == [ i \in DOMAIN kb |-> [ kb[i] EXCEPT !.pos = i ] ]

\* the map and filter that make qaPrepared
PrepareQa(x) ==
  [ x EXCEPT !.answer = normalizeVendorNames(norm(x.answer)),
             !.question = norm(x.question) ]
QaUsable(x) ==
  x.answer # <<>> /\ Len(trim(x.answer)) > 0 /\ Len(trim(x.answer)) >= 3

\* the map and filter that make ctxPrepared
PrepareContext(x) ==
  [ x EXCEPT !.content = norm(OrElse(x.content, OrElse(x.answer, x.question))) ]
ContextUsable(x) == x.content # <<>> /\ Len(trim(x.content)) > 0

\* retrieval bug variant: of the rows with one question only the first is kept
qaPreparedOnePerQuestion(kb) ==
  SelectSeq(MapSeq(SelectSeq(kb, isQaKind), PrepareQa),
            LAMBDA x : /\ QaUsable(x)
                       /\ \A i \in 1 .. x.pos - 1 :
                            ~(isQaKind(kb[i]) /\ norm(kb[i].question) = x.question))

qaPrepared(kb) == SelectSeq(MapSeq(SelectSeq(kb, isQaKind), PrepareQa), QaUsable)
ctxPrepared(kb) ==
  SelectSeq(MapSeq(SelectSeq(kb, isContextKind), PrepareContext), ContextUsable)

\* an exception leaves the function: no result
Thrown == [ threw |-> TRUE, qaMatches |-> <<>>, contextMatches |-> <<>> ]

\* empty-corpus bug variant: raising instead of returning no matches
KbEmptyError == Thrown

\* the result for an empty or invalid corpus
NoMatches == [ threw |-> FALSE, qaMatches |-> <<>>, contextMatches |-> <<>> ]

\* scoreRowsForQuery(...).slice(0, Math.min(limit, length)): [threw, rows]
SliceScored(scored, limit, length) ==
  IF scored.threw THEN scored
  ELSE [ threw |-> FALSE, rows |-> Slice0(scored.rows, Min(limit, length)) ]

\* qaScored / ctxScored: the prepared rows ranked and cut, [] when there are none
TopScored(prepared, queryEmbedding, queryText, mode, limit) ==
  IF Len(prepared) = 0 THEN [ threw |-> FALSE, rows |-> <<>> ]
  ELSE SliceScored(scoreRowsForQuery(prepared, queryEmbedding, queryText, mode),
                   limit, Len(prepared))

\* the object returned, unless one of the two scorings raised
Matches(qaScored, ctxScored) ==
  IF qaScored.threw \/ ctxScored.threw THEN Thrown
  ELSE [ threw |-> FALSE, qaMatches |-> qaScored.rows, contextMatches |-> ctxScored.rows ]

\* retrieveMatchesWithContext after its load: [threw, qaMatches, contextMatches]
retrieveMatchesWithContext(load, queryEmbedding, qaLimit, contextLimit, queryText) ==
  IF load.threw THEN Thrown
  ELSE IF Len(load.kb) = 0 THEN NoMatches
  ELSE Matches(TopScored(qaPrepared(WithPos(load.kb)), queryEmbedding, queryText,
                         "qa", qaLimit),
               TopScored(ctxPrepared(WithPos(load.kb)), queryEmbedding, queryText,
                         "context", contextLimit))

\* legacy bug variant: asking for context rows too and falling back to them
\* when no Q&A row matched
retrieveMatchesContextFallback(load, queryEmbedding, limit, queryText) ==
  CHOOSE m \in { IF r.threw THEN [ threw |-> TRUE, matches |-> <<>> ]
                 ELSE IF Len(r.qaMatches) > 0
                      THEN [ threw |-> FALSE, matches |-> r.qaMatches ]
                      ELSE [ threw |-> FALSE, matches |-> r.contextMatches ] :
                 r \in { retrieveMatchesWithContext(load, queryEmbedding, limit, limit,
                                                    queryText) } } : TRUE

\* what retrieveMatches makes of the result: its qaMatches, or []
QaMatchesOnly(r) ==
  IF r.threw THEN [ threw |-> TRUE, matches |-> <<>> ]
  ELSE IF Len(r.qaMatches) > 0 THEN [ threw |-> FALSE, matches |-> r.qaMatches ]
  ELSE [ threw |-> FALSE, matches |-> <<>> ]

\* retrieveMatches (legacy, Q&A only): [threw, matches]
retrieveMatches(load, queryEmbedding, limit, queryText) ==
  QaMatchesOnly(retrieveMatchesWithContext(load, queryEmbedding, limit, 0, queryText))

\* -------------------------------------------------- hygiene / maintenance
(***************************************************************************)
(* SanitizeOpts is [minAnswerLen, useGPT, openaiKey]: minAnswerLen is a    *)
(* given number or not given, useGPT and openaiKey are truthy or not.      *)
(***************************************************************************)
NotGiven == [given |-> FALSE, v |-> 0]
Given(n) == [given |-> TRUE, v |-> n]
DefaultMinAnswerLen == 8

\* opts.minAnswerLen ?? 8
MinAnswerLenOf(opts) ==
  IF opts.minAnswerLen.given THEN opts.minAnswerLen.v ELSE DefaultMinAnswerLen

\* the map of step 1 of sanitizeKb
NormalizeQa(x) ==
  [ x EXCEPT !.question = norm(x.question),
             !.answer = normalizeVendorNames(norm(x.answer)) ]

\* the filter of step 1 of sanitizeKb
PassesHardFilters(x, minAnswerLen) ==
  /\ x.question # <<>>
  /\ x.answer # <<>>
  /\ ~isGarbageAnswer(x.answer)
  /\ Len(x.answer) >= minAnswerLen

\* dedupe bug variant: the source is part of the key
DedupKeyWithSource(x) ==
  toLowerCase(x.question) \o <<"|">> \o toLowerCase(x.answer) \o <<"|">> \o x.source

\* key: `${question.toLowerCase()}|${answer.toLowerCase()}`
DedupKey(x) == toLowerCase(x.question) \o <<"|">> \o toLowerCase(x.answer)

\* the loop of step 2 of sanitizeKb from index i on, with the keys seen so far
RECURSIVE DedupFrom(_, _, _, _)
DedupFrom(pre, i, seen, dedup) ==
  IF i > Len(pre) THEN dedup
  ELSE IF DedupKey(pre[i]) \in seen THEN DedupFrom(pre, i + 1, seen, dedup)
  ELSE DedupFrom(pre, i + 1, seen \cup { DedupKey(pre[i]) }, Append(dedup, pre[i]))

\* pre of sanitizeKb: the QA records normalised and filtered
\* bug variant of step 1: the filter sees the record before it is normalized
HardFilteredBeforeNormalizing(qaItems, minAnswerLen) ==
  MapSeq(SelectSeq(qaItems, LAMBDA x : PassesHardFilters(x, minAnswerLen)), NormalizeQa)

HardFiltered(qaItems, minAnswerLen) ==
  SelectSeq(MapSeq(qaItems, NormalizeQa), LAMBDA x : PassesHardFilters(x, minAnswerLen))

\* the classifier's answer for one chunk of gptFilter:
\*   "network-error"  the fetch rejects, or the body is no JSON
\*   "no-choices"     a body without choices[0].message.content (an error response)
\*   "unparseable"    content JSON.parse throws on
\*   "decisions"      content holding a JSON array, list being its entries
\* An entry is TRUE or FALSE.
ChunkAnswer(kind, list) == [ kind |-> kind, list |-> list ]

\* await fetch(...) / await resp.json() raises
Rejects(answer) == answer.kind = "network-error"

\* decisions of gptFilter for a chunk of n records
Decisions(answer, n) ==
  CASE answer.kind = "no-choices"  -> <<>>                       \* raw = "[]"
    [] answer.kind = "unparseable" -> [ j \in 1 .. n |-> TRUE ]   \* catch
    [] OTHER                       -> answer.list

\* the records of a chunk whose decision is truthy; decisions[j] is undefined
\* past the end of the list
KeptOfChunk(slice, decisions) ==
  MapSeq(SelectSeq([ j \in DOMAIN slice |->
                       [ row |-> slice[j],
                         keep |-> j <= Len(decisions) /\ decisions[j] ] ],
                   LAMBDA d : d.keep),
         LAMBDA d : d.row)

\* size of a chunk of gptFilter, scaled down from 50
chunkSize == 2

\* gptFilter from index i (0-based) on: [threw, keep]; answers[c] is the
\* classifier's answer for chunk c
RECURSIVE GptFilterFrom(_, _, _, _)
GptFilterFrom(items, answers, i, keep) ==
  IF i >= Len(items) THEN [ threw |-> FALSE, keep |-> keep ]
  ELSE IF Rejects(answers[(i \div chunkSize) + 1])
       THEN [ threw |-> TRUE, keep |-> <<>> ]
       ELSE GptFilterFrom(items, answers, i + chunkSize,
              keep \o KeptOfChunk(
                        SubSeq(items, i + 1, Min(i + chunkSize, Len(items))),
                        Decisions(answers[(i \div chunkSize) + 1],
                                  Min(i + chunkSize, Len(items)) - i)))

\* gptFilter: the promise's outcome
gptFilter(items, answers) == GptFilterFrom(items, answers, 0, <<>>)

\* maintenance bug variant: the context records are normalised like the others
sanitizeKbContextNormalized(items, opts) ==
  IF opts.useGPT /\ opts.openaiKey THEN [ threw |-> TRUE, items |-> <<>> ]
  ELSE [ threw |-> FALSE,
         items |-> DedupFrom(HardFiltered(SelectSeq(items, isQaKind), MinAnswerLenOf(opts)),
                             1, {}, <<>>)
                     \o MapSeq(SelectSeq(items, isContextKind), NormalizeQa) ]

\* sanitizeKb: [threw, items].  With useGPT and a key, cleanedQa is the promise
\* gptFilter returns, and spreading it into the result array raises a TypeError.
sanitizeKb(items, opts) ==
  IF opts.useGPT /\ opts.openaiKey THEN [ threw |-> TRUE, items |-> <<>> ]
  ELSE [ threw |-> FALSE,
         items |-> DedupFrom(HardFiltered(SelectSeq(items, isQaKind), MinAnswerLenOf(opts)),
                             1, {}, <<>>)
                     \o SelectSeq(items, isContextKind) ]

\* ------------------------------------------------------ saving, upserting
\* what the blob store does with a put
PutOutcomes == { "ok", "fails" }

\* save bug variant: the records are added to what is stored
saveKbMerging(items, stored, hasToken, put) ==
  IF ~hasToken THEN [ threw |-> FALSE, ok |-> FALSE, stored |-> stored ]
  ELSE IF put = "fails" THEN [ threw |-> TRUE, ok |-> FALSE, stored |-> stored ]
  ELSE [ threw |-> FALSE, ok |-> TRUE,
         stored |-> stored \o SelectSeq(items, LAMBDA x : \A i \in DOMAIN stored : stored[i] # x) ]

\* save bug variant: a missing write credential is an error
saveKbTokenRequired(items, stored, hasToken, put) ==
  IF ~hasToken \/ put = "fails" THEN [ threw |-> TRUE, ok |-> FALSE, stored |-> stored ]
  ELSE [ threw |-> FALSE, ok |-> TRUE, stored |-> items ]

\* saveKb(items) when kb.json holds stored: [threw, ok, stored], stored being
\* what kb.json holds afterwards
saveKb(items, stored, hasToken, put) ==
  IF ~hasToken THEN [ threw |-> FALSE, ok |-> FALSE, stored |-> stored ]   \* read-only mode
  ELSE IF put = "fails" THEN [ threw |-> TRUE, ok |-> FALSE, stored |-> stored ]
  ELSE [ threw |-> FALSE, ok |-> TRUE, stored |-> items ]

\* the loop of updateOrInsertAnswer: index of the first row that matches from
\* index i on, 0 when there is none
RECURSIVE TargetFrom(_, _, _, _)
TargetFrom(kb, i, qKey, sKey) ==
  IF i > Len(kb) THEN 0
  ELSE IF /\ isQaKind(kb[i])
          /\ toLowerCase(norm(kb[i].question)) = qKey
          /\ (sKey = <<>> \/ toLowerCase(norm(kb[i].source)) = sKey)
       THEN i
       ELSE TargetFrom(kb, i + 1, qKey, sKey)

\* target of updateOrInsertAnswer: qKey is lower-cased, sKey is not
TargetIndex(kb, question, source) ==
  TargetFrom(kb, 1, toLowerCase(norm(question)), norm(source))

\* the update branch: the target row changed in place
UpdatedRow(target, normalizedAnswer, source, embedding) ==
  [ target EXCEPT !.answer = normalizedAnswer,
                  !.embedding = IF embedding.tag = "array" THEN embedding ELSE @,
                  !.kind = IF @ = "absent" THEN "qa" ELSE @,
                  !.source = IF @ = <<>> /\ source # <<>> THEN source ELSE @ ]

Str_manualEdit == << "m","a","n","u","a","l","-","e","d","i","t" >>

\* the insert branch: the new item (its origin label is not modelled)
InsertedRow(question, normalizedAnswer, source, embedding) ==
  [ kind |-> "qa", question |-> norm(question), answer |-> normalizedAnswer,
    content |-> <<>>,
    embedding |-> IF embedding.tag = "array" THEN embedding ELSE ArrayEmbedding(<<>>),
    source |-> IF source # <<>> THEN source ELSE Str_manualEdit, pos |-> 0 ]

\* kb after the update or the push, given the index of the target (0: none)
UpsertedAt(kb, i, question, normalizedAnswer, source, embedding) ==
  IF i > 0
  THEN [ kb EXCEPT ![i] = UpdatedRow(kb[i], normalizedAnswer, source, embedding) ]
  ELSE Append(kb, InsertedRow(question, normalizedAnswer, source, embedding))

\* updateOrInsertAnswer between its load and its save: the array it will save
Upserted(kb, question, newAnswer, source, embedding) ==
  UpsertedAt(kb, TargetIndex(kb, question, source), question,
             normalizeVendorNames(norm(newAnswer)), source, embedding)

\* ------------------------------------------------------------------ inputs
Str_fee == << "f","e","e" >>
Str_hmcFee == << " ","H","M","C"," "," ","f","e","e" >>
Str_plan == << "p","l","a","n" >>
Str_NA == << "N","/","A" >>
Str_dash == << "-" >>
Str_blank == << " ","\t" >>
Str_LSW == << "L","S","W" >>
Str_OK == << "O","K" >>
Str_doc == << "d","o","c" >>
Str_query == << "f","e","e"," ","U","p","r","i","s","e"," ",
                "H","e","a","l","t","h"," ","f","e","e" >>

Row(kind, question, answer, content, embedding, source) ==
  [ kind |-> kind, question |-> question, answer |-> answer, content |-> content,
    embedding |-> embedding, source |-> source, pos |-> 0 ]

\* the records a stored corpus is drawn from
KbRows ==
  { Row("absent", Str_fee, Str_hmcFee, <<>>,
        StringEmbedding("array", <<Num(1), Num(0)>>), <<"a">>),
    Row("qa", Str_fee, Str_hmcFee, <<>>, NoEmbedding, <<"b">>),
    Row("qa", Str_fee, Str_hmcFee, <<>>, ArrayEmbedding(<<Num(0), Num(0)>>), <<"c">>),
    Row("qa", Str_LSW, Str_NA, <<>>, StringEmbedding("nonarray", <<>>), <<"a">>),
    Row("qa", Str_fee, Str_dash, <<>>, ArrayEmbedding(<<Num(1), Num(0)>>), <<"a">>),
    Row("qa", Str_fee, Str_OK, <<>>, NoEmbedding, <<"a">>),
    Row("qa", Str_fee, Str_plan, <<>>, NoEmbedding, <<"a">>),
    Row("context", <<>>, <<>>, Str_plan,
        ArrayEmbedding(<<NotANumber, Num(1), Num(1)>>), Str_doc),
    Row("context", <<>>, Str_hmcFee, <<>>, StringEmbedding("invalid", <<>>), Str_doc),
    Row("context", <<>>, <<>>, Str_hmcFee, ArrayEmbedding(<<>>), Str_doc),
    Row("context", <<>>, <<>>, Str_blank, ArrayEmbedding(<<Num(1), Num(0)>>), Str_doc) }

RECURSIVE SeqsUpTo(_, _)
SeqsUpTo(S, n) ==
  IF n = 0 THEN { <<>> }
  ELSE LET shorter == SeqsUpTo(S, n - 1)
       IN  shorter \cup { Append(s, x) : s \in { t \in shorter : Len(t) = n - 1 }, x \in S }

Corpora == SeqsUpTo(KbRows, MaxKb)

QueryEmbeddings ==
  { NoEmbedding, ArrayEmbedding(<<>>), ArrayEmbedding(<<Num(1), Num(0)>>),
    ArrayEmbedding(<<Num(0), Num(0)>>) }
QueryTexts == { <<>>, Str_query }
Limits == 0 .. MaxLimit

\* ------------------------------------------------------------ state machine
VARIABLES
  store,    \* the stored corpus (kb.json): a sequence of records
  call,     \* the last completed request, with its inputs and its outcome
  token,    \* whether a blob write token is configured in the environment
  proc      \* the updateOrInsertAnswer calls in flight, one per caller

vars == << store, call, token, proc >>

\* the callers that can have an updateOrInsertAnswer call in flight
Procs == 1 .. NumProcs

\* a caller with no call in flight
Idle == [ pc |-> "idle" ]

NoCall ==
  [ op |-> "none", queryEmbedding |-> NoEmbedding, queryText |-> <<>>,
    qaLimit |-> 0, contextLimit |-> 0, fetch |-> "ok", threw |-> FALSE,
    qaMatches |-> <<>>, contextMatches |-> <<>>, matches |-> <<>> ]

Init ==
  /\ store \in Corpora
  /\ call = NoCall
  /\ token = FALSE
  /\ proc = [ p \in Procs |-> Idle ]

\* a request served by retrieveMatchesWithContext
CallRetrieveMatchesWithContext ==
  /\ call.op = "none"
  /\ \E e \in QueryEmbeddings, t \in QueryTexts, ql \in Limits, cl \in Limits,
        f \in FetchOutcomes :
    \E r \in { retrieveMatchesWithContext(loadKb(f, store), e, ql, cl, t) } :
        /\ call' = [ op |-> "retrieveMatchesWithContext", queryEmbedding |-> e,
                     queryText |-> t, qaLimit |-> ql, contextLimit |-> cl, fetch |-> f,
                     threw |-> r.threw, qaMatches |-> r.qaMatches,
                     contextMatches |-> r.contextMatches, matches |-> <<>> ]
        /\ UNCHANGED << store, token, proc >>

\* a request served by retrieveMatches
CallRetrieveMatches ==
  /\ call.op = "none"
  /\ \E e \in QueryEmbeddings, t \in QueryTexts, l \in Limits, f \in FetchOutcomes :
    \E r \in { retrieveMatches(loadKb(f, store), e, l, t) } :
        /\ call' = [ op |-> "retrieveMatches", queryEmbedding |-> e,
                     queryText |-> t, qaLimit |-> l, contextLimit |-> 0, fetch |-> f,
                     threw |-> r.threw, qaMatches |-> <<>>,
                     contextMatches |-> <<>>, matches |-> r.matches ]
        /\ UNCHANGED << store, token, proc >>

\* the caller has taken the result; the next request can start
Return ==
  /\ call.op # "none"
  /\ call' = NoCall
  /\ UNCHANGED << store, token, proc >>

Next ==
  \/ CallRetrieveMatchesWithContext
  \/ CallRetrieveMatches
  \/ Return

Spec == Init /\ [][Next]_vars

\* ------------------------------------- sanitizeKb and gptFilter on their own
Str_Fee == << "F","e","e" >>
Str_hmcFeeClean == << "H","M","C"," ","f","e","e" >>
Str_aBarB == << "a","|","b" >>
Str_bBarHmcFee == << "b","|","H","M","C"," ","f","e","e" >>
Str_testPlan == << "t","e","s","t"," ","p","l","a","n" >>
Str_planPadded == << " ","p","l","a","n"," " >>
Str_Doc == << "D","o","c" >>
Str_FeePadded == << " ","F","e","e"," " >>

\* the records an array handed to sanitizeKb or gptFilter is drawn from
HygieneRows ==
  { Row("qa", Str_fee, Str_hmcFee, <<>>, NoEmbedding, <<"a">>),
    Row("absent", Str_fee, Str_hmcFeeClean, <<>>, NoEmbedding, <<"b">>),
    Row("qa", Str_Fee, Str_hmcFeeClean, <<>>, NoEmbedding, <<"a">>),
    Row("qa", <<"a">>, Str_bBarHmcFee, <<>>, NoEmbedding, <<"a">>),
    Row("qa", Str_aBarB, Str_hmcFeeClean, <<>>, NoEmbedding, <<"a">>),
    Row("qa", Str_fee, Str_plan, <<>>, NoEmbedding, <<"a">>),
    Row("qa", Str_fee, Str_testPlan, <<>>, NoEmbedding, <<"a">>),
    Row("qa", <<>>, Str_hmcFeeClean, <<>>, NoEmbedding, <<"a">>),
    Row("context", Str_fee, Str_hmcFee, Str_planPadded,
        StringEmbedding("array", <<Num(1), Num(0)>>), Str_doc),
    Row("note", Str_fee, Str_hmcFeeClean, <<>>, NoEmbedding, <<"a">>),
    Row("qa", <<" ">>, Str_hmcFee, <<>>, NoEmbedding, <<"a">>) }

HygieneInputs == SeqsUpTo(HygieneRows, MaxItems)

SanitizeOptions ==
  [ minAnswerLen : { NotGiven, Given(3) }, useGPT : BOOLEAN, openaiKey : BOOLEAN ]

ClassifierAnswers ==
  { ChunkAnswer("network-error", <<>>), ChunkAnswer("no-choices", <<>>),
    ChunkAnswer("unparseable", <<>>), ChunkAnswer("decisions", <<TRUE, FALSE>>),
    ChunkAnswer("decisions", <<FALSE>>), ChunkAnswer("decisions", <<TRUE, TRUE>>) }

\* the chunks gptFilter makes of the longest array
NumChunks == (MaxItems + chunkSize - 1) \div chunkSize

\* store holds the array the function is applied to
HygieneInit ==
  /\ store \in HygieneInputs
  /\ call = NoCall
  /\ token = FALSE
  /\ proc = [ p \in Procs |-> Idle ]

\* a call of sanitizeKb(items, opts); again is what sanitizeKb makes of the
\* array it returned, called with the same opts
CallSanitizeKb ==
  /\ call.op = "none"
  /\ \E opts \in SanitizeOptions :
       \E r \in { sanitizeKb(WithPos(store), opts) } :
         call' = [ op |-> "sanitizeKb", opts |-> opts, threw |-> r.threw,
                   items |-> r.items, again |-> sanitizeKb(r.items, opts).items ]
  /\ UNCHANGED << store, token, proc >>

\* a call of gptFilter(items, key), the classifier answering chunk by chunk
CallGptFilter ==
  /\ call.op = "none"
  /\ \E answers \in [ 1 .. NumChunks -> ClassifierAnswers ] :
       \E r \in { gptFilter(WithPos(store), answers) } :
         call' = [ op |-> "gptFilter", answers |-> answers, threw |-> r.threw,
                   items |-> r.keep ]
  /\ UNCHANGED << store, token, proc >>

HygieneNext ==
  \/ CallSanitizeKb
  \/ CallGptFilter
  \/ Return

HygieneSpec == HygieneInit /\ [][HygieneNext]_vars

\* --------------------------------------------- requests that write kb.json
\* the records a stored corpus is drawn from when requests write to it
StoreRows ==
  { Row("qa", Str_fee, Str_hmcFeeClean, <<>>, NoEmbedding, Str_Doc),
    Row("absent", Str_FeePadded, Str_plan, <<>>, NoEmbedding, <<>>),
    Row("context", Str_fee, <<>>, Str_planPadded, NoEmbedding, Str_doc) }

StoredCorpora == SeqsUpTo(StoreRows, MaxStore)

\* the arguments callers pass to updateOrInsertAnswer
UpsertQuestions == { Str_Fee, Str_plan }
UpsertAnswers == { Str_hmcFee }
UpsertSources == { <<>>, Str_Doc }
UpsertEmbeddings == { ArrayEmbedding(<<Num(1), Num(0)>>) }

StoreInit ==
  /\ store \in StoredCorpora
  /\ call = NoCall
  /\ token \in BOOLEAN
  /\ proc = [ p \in Procs |-> Idle ]

\* updateOrInsertAnswer up to its await of saveKb: the load, the search for the
\* target and the update or push, all on the caller's own copy of the corpus
UpsertLoad(p) ==
  /\ proc[p].pc = "idle"
  /\ \A q \in 1 .. p - 1 : proc[q].pc # "idle"     \* callers are interchangeable
  /\ \E question \in UpsertQuestions, newAnswer \in UpsertAnswers,
        source \in UpsertSources, embedding \in UpsertEmbeddings, f \in FetchOutcomes :
       \E load \in { loadKb(f, store) } :
         proc' = [ proc EXCEPT ![p] =
                     [ pc |-> IF load.threw THEN "done" ELSE "save",
                       question |-> question, newAnswer |-> newAnswer,
                       source |-> source, embedding |-> embedding,
                       before |-> store, loaded |-> load.kb,
                       kb |-> IF load.threw THEN <<>>
                              ELSE Upserted(load.kb, question, newAnswer, source, embedding),
                       threw |-> load.threw, wrote |-> FALSE ] ]
  /\ UNCHANGED << store, call, token >>

\* the rest of updateOrInsertAnswer: saveKb(kb), then return target
UpsertSave(p) ==
  /\ proc[p].pc = "save"
  /\ \E put \in PutOutcomes :
       \E saved \in { saveKb(proc[p].kb, store, token, put) } :
         /\ store' = saved.stored
         /\ proc' = [ proc EXCEPT ![p].pc = "done", ![p].threw = saved.threw,
                                  ![p].wrote = saved.ok ]
  /\ UNCHANGED << call, token >>

\* what the route sees of its load: thrown, no rows, or rows
LoadClass(load) ==
  IF load.threw THEN "threw" ELSE IF Len(load.kb) = 0 THEN "empty" ELSE "rows"

\* what became of the request's saveKb: not reached, or its outcome
SaveClass(saved) ==
  IF saved.threw THEN "threw" ELSE IF saved.ok THEN "ok" ELSE "no-op"

\* the response of the sanitize request, with what its load gave and what
\* became of its save
SanitizeResponse(load, save, status) ==
  [ op |-> "sanitize", load |-> LoadClass(load), save |-> save, status |-> status ]

\* the route after a load that gave rows: sanitizeKb with minAnswerLen 8,
\* saveKb, 200; 500 on anything thrown
SanitizeAndSave(load, useGPT, openaiKey) ==
  \E cleaned \in { sanitizeKb(load.kb, [ minAnswerLen |-> Given(8),
                                         useGPT |-> useGPT,
                                         openaiKey |-> openaiKey ]) } :
    IF cleaned.threw
    THEN call' = SanitizeResponse(load, "not-reached", 500) /\ store' = store
    ELSE \E put \in PutOutcomes :
           \E saved \in { saveKb(cleaned.items, store, token, put) } :
             /\ call' = SanitizeResponse(load, SaveClass(saved),
                                         IF saved.threw THEN 500 ELSE 200)
             /\ store' = saved.stored

\* route bug variant: an empty load is sanitized and saved like any other
SanitizeEmptySaved(load) ==
  \E put \in PutOutcomes :
    \E saved \in { saveKb(<<>>, store, token, put) } :
      /\ call' = SanitizeResponse(load, SaveClass(saved), IF saved.threw THEN 500 ELSE 200)
      /\ store' = saved.stored

\* the route on a load without rows: 404 and no save
SanitizeNotFound(load) ==
  call' = SanitizeResponse(load, "not-reached", 404) /\ store' = store

\* POST of the sanitize route: load, 404 on an empty corpus, else sanitize and
\* save; 500 when the load throws
SanitizeRequest ==
  /\ call.op = "none"
  /\ \E f \in FetchOutcomes, useGPT \in BOOLEAN, openaiKey \in BOOLEAN :
       \E load \in { loadKb(f, store) } :
         IF load.threw
         THEN call' = SanitizeResponse(load, "not-reached", 500) /\ store' = store
         ELSE IF Len(load.kb) = 0
         THEN SanitizeNotFound(load)
         ELSE SanitizeAndSave(load, useGPT, openaiKey)
  /\ UNCHANGED << token, proc >>

StoreNext ==
  \/ \E p \in Procs : UpsertLoad(p)
  \/ \E p \in Procs : UpsertSave(p)
  \/ SanitizeRequest

StoreSpec == StoreInit /\ [][StoreNext]_vars

\* ================================================================== claims
IsRetrieve == call.op = "retrieveMatchesWithContext"
IsLegacy == call.op = "retrieveMatches"
Returned == call.op # "none" /\ ~call.threw

\* the corpus the request worked on, rows numbered as in the result
Loaded == WithPos(loadKb(call.fetch, store).kb)
EligibleQa == qaPrepared(Loaded)
EligibleContext == ctxPrepared(Loaded)

Elems(s) == { s[i] : i \in DOMAIN s }

\* C1 (as claimed): no QA record whose normalized answer is empty or a garbage
\* answer ("N/A", "-", ".", a single letter, ...) is ever in qaMatches or in the
\* result of retrieveMatches.
C1_GarbageExcluded ==
  \A m \in Elems(call.qaMatches) \cup Elems(call.matches) :
    /\ norm(store[m.pos].answer) # <<>>
    /\ ~isGarbageAnswer(store[m.pos].answer)

\* C2: retrieveMatchesWithContext returns at most qaLimit QA matches and at
\* most contextLimit context matches; a limit of 0 yields an empty list.
C2_LimitsRespected ==
  IsRetrieve /\ Returned =>
    /\ Len(call.qaMatches) <= call.qaLimit
    /\ Len(call.contextMatches) <= call.contextLimit
    /\ (call.qaLimit = 0 => call.qaMatches = <<>>)
    /\ (call.contextLimit = 0 => call.contextMatches = <<>>)

\* C2 witness: more eligible rows than the limit, and the list is cut to it
C2_Witness ==
  /\ IsRetrieve /\ Returned
  /\ call.qaLimit >= 1
  /\ Len(EligibleQa) > call.qaLimit
  /\ Len(call.qaMatches) = call.qaLimit

\* the candidate's searchable text, as returned
SearchText(m) ==
  IF isQaKind(m) THEN m.question \o <<" ">> \o m.answer ELSE m.content

\* the query embedding as numbers, and the test that some entry is not zero
QueryVector == MapSeq(call.queryEmbedding.val, LAMBDA n : Num(NumberOrZero(n)))
HasNonZero(v) == \E i \in DOMAIN v : v[i].v # 0

AllMatches == Elems(call.qaMatches) \cup Elems(call.contextMatches) \cup Elems(call.matches)

\* the fusion rule of C3 for the returned candidate m
FusionRule(m) ==
  IF Len(m.embedding.val) > 0 /\ Len(call.queryEmbedding.val) > 0
  THEN (SemanticWeight + LexicalWeight) * m.score
         = SemanticWeight * m.semanticScore + LexicalWeight * m.lexicalScore
  ELSE m.score = m.lexicalScore

\* embedding identical to the query embedding, text identical to the query text
IdenticalToQuery(m) ==
  /\ Len(m.embedding.val) > 0
  /\ m.embedding.val = QueryVector
  /\ call.queryText # <<>>
  /\ call.queryText = SearchText(m)

\* C3 (as claimed): score = 0.7 * semanticScore + 0.3 * lexicalScore when both
\* embeddings are non-empty, lexicalScore otherwise; and with an embedding
\* identical to the query embedding and text identical to the query text the
\* score is 1.0.
C3_FusionAsClaimed ==
  \A m \in AllMatches :
    /\ FusionRule(m)
    /\ (IdenticalToQuery(m) => m.score = ScoreOne)

\* C3 (amended): the same, the score 1.0 being claimed only when the identical
\* embedding has a non-zero entry.
C3_Fusion ==
  \A m \in AllMatches :
    /\ FusionRule(m)
    /\ (IdenticalToQuery(m) /\ HasNonZero(m.embedding.val) => m.score = ScoreOne)

\* C3 witness: one candidate scored 1.0 by fusion and one scored on its text
\* alone although the query has an embedding
C3_Witness ==
  /\ IsRetrieve /\ Returned
  /\ \E m \in Elems(call.qaMatches) :
       IdenticalToQuery(m) /\ HasNonZero(m.embedding.val) /\ m.score = ScoreOne
  /\ \E m \in Elems(call.qaMatches) :
       /\ Len(m.embedding.val) = 0 /\ Len(call.queryEmbedding.val) > 0
       /\ m.lexicalScore > 0 /\ m.score = m.lexicalScore

\* one returned list is the top of the stable descending sort of the eligible rows
TopOfStableSort(list, eligible, queryEmbedding, queryText, mode) ==
  /\ \A i, j \in DOMAIN list :
       i < j => \/ list[i].score > list[j].score
                \/ list[i].score = list[j].score /\ list[i].pos < list[j].pos
  /\ \A k \in DOMAIN eligible :
       (\A i \in DOMAIN list : list[i].pos # eligible[k].pos) =>
         LET r == ScoreRow(eligible[k], queryEmbedding, queryText, mode)
         IN  \A i \in DOMAIN list :
               \/ r.score < list[i].score
               \/ r.score = list[i].score /\ r.pos > list[i].pos

\* C4: each returned list is in non-increasing order of score, rows of equal
\* score keep their corpus order, and no eligible row left out scores higher
\* than a row that is included.
C4_SortedStableTopK ==
  IsRetrieve /\ Returned =>
    /\ TopOfStableSort(call.qaMatches, EligibleQa,
                       call.queryEmbedding, call.queryText, "qa")
    /\ TopOfStableSort(call.contextMatches, EligibleContext,
                       call.queryEmbedding, call.queryText, "context")

\* C4 witness: the later row of the corpus scores higher and is the one returned
C4_Witness ==
  /\ IsRetrieve /\ Returned
  /\ Len(EligibleQa) = 2
  /\ Len(call.qaMatches) = 1
  /\ call.qaMatches[1].pos = 2
  /\ call.qaMatches[1].score >
       ScoreRow(EligibleQa[1], call.queryEmbedding, call.queryText, "qa").score

\* C4 witness for ties: two rows of equal score returned in corpus order
C4_TieWitness ==
  /\ IsRetrieve /\ Returned
  /\ Len(call.contextMatches) = 2
  /\ call.contextMatches[1].score = call.contextMatches[2].score
  /\ call.contextMatches[1].score > 0

\* C6: retrieveMatches returns exactly the qaMatches of
\* retrieveMatchesWithContext called with contextLimit = 0; with no eligible
\* QA record it returns the empty sequence, and it never returns a record of
\* kind context.
C6_LegacyIsQaOnly ==
  IsLegacy =>
    LET r == retrieveMatchesWithContext(loadKb(call.fetch, store), call.queryEmbedding,
                                        call.qaLimit, 0, call.queryText)
    IN  /\ call.threw = r.threw
        /\ call.matches = r.qaMatches
        /\ \A m \in Elems(call.matches) : ~isContextKind(m)
        /\ (Len(EligibleQa) = 0 => call.matches = <<>>)

\* C6 witness: the corpus holds eligible context rows and no eligible QA row,
\* and the legacy entry point returns nothing
C6_Witness ==
  /\ IsLegacy /\ Returned
  /\ call.qaLimit >= 1
  /\ Len(EligibleQa) = 0
  /\ Len(EligibleContext) > 0
  /\ call.queryText # <<>>
  /\ call.matches = <<>>

\* C7 (as claimed): loadKb never throws to its caller; on a network failure, a
\* non-OK status, a body that is no JSON or a payload that is no array,
\* retrieveMatchesWithContext returns {qaMatches: [], contextMatches: []}.
C7_LoadNeverThrows ==
  IsRetrieve /\ call.fetch # "ok" =>
    /\ ~call.threw
    /\ call.qaMatches = <<>>
    /\ call.contextMatches = <<>>

\* C8 (as claimed): scoring never raises, whatever the record's embedding
\* (missing, empty, unparseable, no array, non-numeric entries, another
\* length) and whether the query embedding is empty or absent.
C8_ScoringNeverRaises ==
  call.op # "none" /\ call.fetch = "ok" => ~call.threw

\* C9: when the load yields an empty array, retrieveMatchesWithContext returns
\* {qaMatches: [], contextMatches: []} without throwing, for every query.
C9_EmptyCorpus ==
  IsRetrieve /\ call.fetch = "ok" /\ store = <<>> =>
    /\ ~call.threw
    /\ call.qaMatches = <<>>
    /\ call.contextMatches = <<>>

\* C9 witness: a query with an embedding, a text and positive limits against
\* the empty corpus
C9_Witness ==
  /\ IsRetrieve /\ Returned
  /\ call.fetch = "ok" /\ store = <<>>
  /\ Len(call.queryEmbedding.val) > 0 /\ call.queryText # <<>>
  /\ call.qaLimit >= 1 /\ call.contextLimit >= 1
  /\ call.qaMatches = <<>> /\ call.contextMatches = <<>>

\* C10 (as claimed): a context record is in contextMatches only if its own
\* normalized content field is non-empty.
C10_ContextNeedsContent ==
  \A m \in Elems(call.contextMatches) : norm(store[m.pos].content) # <<>>

\* the QA records of the loaded corpus that pass the bar the claim names: a
\* normalized answer that is non-empty and no garbage answer
NonEmptyBarQa ==
  { i \in DOMAIN Loaded :
      /\ isQaKind(Loaded[i])
      /\ norm(Loaded[i].answer) # <<>>
      /\ ~isGarbageAnswer(Loaded[i].answer) }

\* C11 (as claimed): retrieval applies no minimum answer length: every QA
\* record whose normalized answer is non-empty and not garbage (a 2-character
\* answer included) is returned by retrieveMatchesWithContext whenever qaLimit
\* is at least the number of such records.
C11_NoMinimumLength ==
  IsRetrieve /\ Returned /\ call.qaLimit >= Cardinality(NonEmptyBarQa) =>
    \A i \in NonEmptyBarQa : \E m \in Elems(call.qaMatches) : m.pos = i

\* ------------------------------------------------ claims about sanitizeKb
Sanitized == call.op = "sanitizeKb" /\ ~call.threw

\* the QA records of the output, and the context records of the output
OutQa == SelectSeq(call.items, isQaKind)
OutContext == SelectSeq(call.items, isContextKind)

\* the normalized (question, answer) pair of an input record
PairOf(x) == << norm(x.question), normalizeVendorNames(norm(x.answer)) >>

\* the hygiene tests on the answer of an input record: not garbage, long enough
AnswerPasses(x, minAnswerLen) ==
  /\ ~isGarbageAnswer(PairOf(x)[2])
  /\ Len(PairOf(x)[2]) >= minAnswerLen

\* C12: the output of sanitizeKb holds no two QA records with the same
\* (normalized question, normalized answer) pair; a kept record is the first
\* input record with its pair; the kept QA records are in input order; and two
\* QA records identical after normalization with different sources yield
\* exactly one record.
C12_ExactDedup ==
  Sanitized =>
    /\ \A i, j \in DOMAIN OutQa :
         i < j => /\ << OutQa[i].question, OutQa[i].answer >>
                      # << OutQa[j].question, OutQa[j].answer >>
                  /\ OutQa[i].pos < OutQa[j].pos
    /\ \A i \in DOMAIN OutQa :
         /\ << OutQa[i].question, OutQa[i].answer >> = PairOf(store[OutQa[i].pos])
         /\ \A k \in 1 .. OutQa[i].pos - 1 :
              isQaKind(store[k]) => PairOf(store[k]) # PairOf(store[OutQa[i].pos])
    /\ ( /\ Len(store) = 2
         /\ isQaKind(store[1]) /\ isQaKind(store[2])
         /\ PairOf(store[1]) = PairOf(store[2])
         /\ store[1].source # store[2].source
         /\ PairOf(store[1])[1] # <<>>
         /\ AnswerPasses(store[1], MinAnswerLenOf(call.opts))
         => Len(call.items) = 1 )

\* C12 witness: three QA records, the first and the last with the same pair
\* and different sources; the first and the second are the output
C12_Witness ==
  /\ Sanitized
  /\ Len(store) = 3
  /\ PairOf(store[1]) = PairOf(store[3])
  /\ store[1].source # store[3].source
  /\ PairOf(store[1]) # PairOf(store[2])
  /\ Len(OutQa) = 2
  /\ OutQa[1].pos = 1 /\ OutQa[2].pos = 2

\* the minimum answer length the claim names: the option, 8 when it is not given
ClaimedMinAnswerLen ==
  IF call.opts.minAnswerLen.given THEN call.opts.minAnswerLen.v ELSE 8

\* an earlier QA record of the input has the same normalized pair as record k,
\* letter case ignored
DuplicateOfEarlier(k) ==
  \E j \in 1 .. k - 1 :
    /\ isQaKind(store[j])
    /\ toLowerCase(PairOf(store[j])[1]) = toLowerCase(PairOf(store[k])[1])
    /\ toLowerCase(PairOf(store[j])[2]) = toLowerCase(PairOf(store[k])[2])

\* C13 (as claimed): every QA record in the output of sanitizeKb has a
\* non-garbage answer of length >= minAnswerLen (8 when not given), and a QA
\* record with a non-empty question whose answer passes both tests is dropped
\* only as a duplicate of an earlier record.
C13_StrictHygiene ==
  Sanitized =>
    /\ \A i \in DOMAIN OutQa :
         /\ ~isGarbageAnswer(OutQa[i].answer)
         /\ Len(OutQa[i].answer) >= ClaimedMinAnswerLen
    /\ \A k \in DOMAIN store :
         ( /\ isQaKind(store[k])
           /\ PairOf(store[k])[1] # <<>>
           /\ AnswerPasses(store[k], ClaimedMinAnswerLen) )
         => \/ \E i \in DOMAIN OutQa : OutQa[i].pos = k
            \/ DuplicateOfEarlier(k)

Filtered == call.op = "gptFilter"

\* the chunk input record k falls in, and its place in that chunk
ChunkOf(k) == ((k - 1) \div chunkSize) + 1
PlaceInChunk(k) == ((k - 1) % chunkSize) + 1

\* input record k is in the result, unmodified
KeptUnmodified(k) ==
  /\ ~call.threw
  /\ \E i \in DOMAIN call.items : call.items[i] = WithPos(store)[k]

\* the classifier returned an explicit drop decision for input record k
ExplicitDrop(k) ==
  /\ call.answers[ChunkOf(k)].kind = "decisions"
  /\ PlaceInChunk(k) <= Len(call.answers[ChunkOf(k)].list)
  /\ ~call.answers[ChunkOf(k)].list[PlaceInChunk(k)]

\* C15 (as claimed): when the classifier call for a chunk fails entirely
\* (network error, error response without a decision list) or its output
\* cannot be parsed, every record of that chunk is kept unmodified in the
\* result; a record is dropped only on an explicit drop decision for it.
C15_ClassifierFailOpen ==
  Filtered =>
    \A k \in DOMAIN store :
      /\ call.answers[ChunkOf(k)].kind \in { "network-error", "no-choices", "unparseable" }
           => KeptUnmodified(k)
      /\ ~KeptUnmodified(k) => ExplicitDrop(k)

\* ------------------------------------------------------------------ C16
\* a step of the sanitize request
SanitizeStep == call.op = "none" /\ call'.op = "sanitize"

\* C16: a sanitize request whose load yields an empty, missing or non-array
\* corpus answers 404 (not found), never reaches saveKb and leaves the stored
\* corpus as it was
C16_NotFoundNoSave ==
  [][ (SanitizeStep /\ call'.load = "empty")
        => (call'.status = 404 /\ call'.save = "not-reached" /\ store' = store) ]_vars

\* a 404 response while kb.json holds rows (the fetch failed or gave no array)
C16_Witness ==
  /\ call.op = "sanitize" /\ call.load = "empty" /\ call.status = 404
  /\ Len(store) > 0
  /\ token
  /\ \A p \in Procs : proc[p].pc = "idle"

\* ------------------------------------------------------------------ C17
\* a step of updateOrInsertAnswer that runs its saveKb
UpsertSaveStep(p) == proc[p].pc = "save" /\ proc'[p].pc = "done"

\* C17: without a write credential nothing is written and saveKb does not
\* throw: the store never changes, updateOrInsertAnswer returns without an
\* error, and a sanitize request that reaches its save answers 200
C17_ReadOnlyNoOp ==
  [][ ~token =>
        /\ store' = store
        /\ \A p \in Procs : UpsertSaveStep(p) => (~proc'[p].threw /\ ~proc'[p].wrote)
        /\ (SanitizeStep /\ call'.save # "not-reached")
             => (call'.save = "no-op" /\ call'.status = 200) ]_vars

\* read-only mode: an upsert and a sanitize request both completed normally
\* although what they wanted to save differs from what is stored
C17_Witness ==
  /\ ~token
  /\ \E p \in Procs : /\ proc[p].pc = "done" /\ ~proc[p].threw /\ ~proc[p].wrote
                      /\ proc[p].kb # store
  /\ call.op = "sanitize" /\ call.save = "no-op" /\ call.status = 200

\* ------------------------------------------------------------------ C18
\* the record the upsert is said to address: the first QA record with the
\* given question, compared normalized and without case, and with the given
\* source when one is given; 0 when there is none
RECURSIVE ClaimedTargetFrom(_, _, _, _)
ClaimedTargetFrom(kb, i, question, source) ==
  IF i > Len(kb) THEN 0
  ELSE IF /\ isQaKind(kb[i])
          /\ toLowerCase(norm(kb[i].question)) = toLowerCase(norm(question))
          /\ (source = <<>> \/ kb[i].source = source)
       THEN i
       ELSE ClaimedTargetFrom(kb, i + 1, question, source)

\* kb is loaded with the answer of record i replaced, nothing added or removed
ReplacedInPlace(loaded, kb, i, answer) ==
  /\ Len(kb) = Len(loaded)
  /\ kb[i].answer = answer
  /\ kb[i].question = loaded[i].question
  /\ \A j \in DOMAIN loaded : j # i => kb[j] = loaded[j]

\* kb is loaded with one new QA record for the question at its end
AppendedOne(loaded, kb, question, answer) ==
  /\ Len(kb) = Len(loaded) + 1
  /\ SubSeq(kb, 1, Len(loaded)) = loaded
  /\ kb[Len(kb)].kind = "qa"
  /\ kb[Len(kb)].question = norm(question)
  /\ kb[Len(kb)].answer = answer

\* the array a caller is about to save, against the one it loaded
UpsertAsClaimed(r) ==
  IF ClaimedTargetFrom(r.loaded, 1, r.question, r.source) > 0
  THEN ReplacedInPlace(r.loaded, r.kb, ClaimedTargetFrom(r.loaded, 1, r.question, r.source),
                       normalizeVendorNames(norm(r.newAnswer)))
  ELSE AppendedOne(r.loaded, r.kb, r.question, normalizeVendorNames(norm(r.newAnswer)))

\* C18: updateOrInsertAnswer replaces the answer of the first QA record with
\* the given normalized question (and the given source, when one is given) and
\* leaves the number of records unchanged; only when there is no such record
\* does it append exactly one new QA record
C18_UpsertByQuestion ==
  \A p \in Procs : proc[p].pc = "save" => UpsertAsClaimed(proc[p])

\* ------------------------------------------------------------------ C19
\* every record stored before the step is stored after it, at its place and
\* with its question (normalized, without case) and its content
RecordsKept ==
  \A i \in DOMAIN store :
    /\ i \in DOMAIN store'
    /\ toLowerCase(norm(store'[i].question)) = toLowerCase(norm(store[i].question))
    /\ store'[i].content = store[i].content

\* C19: an update-answer operation removes no record, whatever its load gave:
\* when updateOrInsertAnswer saves and the store is still as it was when the
\* operation started, every record of the store is still stored afterwards
C19_UpdateKeepsRecords ==
  [][ \A p \in Procs : (UpsertSaveStep(p) /\ store = proc[p].before) => RecordsKept ]_vars

\* ------------------------------------------------------------------ C20
\* the question a call addresses, as the upsert compares it
QuestionKey(r) == toLowerCase(norm(r.question))

\* corpus s holds the effect of call r: a QA record for its question with the
\* answer it set
EffectIn(s, r) ==
  \E i \in DOMAIN s :
    /\ isQaKind(s[i])
    /\ toLowerCase(norm(s[i].question)) = QuestionKey(r)
    /\ s[i].answer = normalizeVendorNames(norm(r.newAnswer))

\* calls p and q are for different questions and both loaded the same stored
\* corpus, which held the effect of neither, before either of them saved
RacingCalls(p, q) ==
  /\ p # q
  /\ proc[p].pc # "idle" /\ proc[q].pc # "idle"
  /\ QuestionKey(proc[p]) # QuestionKey(proc[q])
  /\ proc[p].before = proc[q].before
  /\ proc[p].loaded = proc[p].before /\ proc[q].loaded = proc[q].before
  /\ ~EffectIn(proc[p].before, proc[p]) /\ ~EffectIn(proc[p].before, proc[q])

\* C20: saveKb replaces the whole collection, so of two racing calls for
\* different questions the one that saves last wins: after its save the store
\* is exactly its own array, with its effect and without the effect the other
\* call had saved
C20_LastSaveWins ==
  [][ \A p, q \in Procs :
        ( /\ RacingCalls(p, q)
          /\ proc[q].pc = "done" /\ proc[q].wrote /\ EffectIn(store, proc[q])
          /\ UpsertSaveStep(p) /\ proc'[p].wrote )
        => ( /\ store' = proc[p].kb
             /\ EffectIn(store', proc[p])
             /\ ~EffectIn(store', proc[q]) ) ]_vars

\* both calls returned after a successful save and the store holds the effect
\* of one of them only
C20_Witness ==
  \E p, q \in Procs :
    /\ RacingCalls(p, q)
    /\ proc[p].pc = "done" /\ proc[p].wrote /\ ~proc[p].threw
    /\ proc[q].pc = "done" /\ proc[q].wrote /\ ~proc[q].threw
    /\ call.op = "none"
    /\ store = proc[p].kb
    /\ EffectIn(store, proc[p]) /\ ~EffectIn(store, proc[q])
    /\ EffectIn(proc[q].kb, proc[q])

\* ------------------------------- retrieval with the load as a step of its own
\* what the fetch of kb.json can do: settle with one of the FetchOutcomes, or
\* never settle (the fetch is given no AbortSignal and no timer is set)
NoResponse == "no-response"
PendingOutcomes == FetchOutcomes \cup { NoResponse }

AwaitInit ==
  /\ store \in SeqsUpTo(KbRows, MaxAwaitKb)
  /\ call = NoCall
  /\ token = FALSE
  /\ proc = [ p \in Procs |-> Idle ]

\* retrieveMatchesWithContext up to `await loadKb()`: the fetch is sent and the
\* function is suspended; fetch is what the store will do with it
BeginRetrieve ==
  /\ call.op = "none"
  /\ \E e \in QueryEmbeddings, t \in QueryTexts, ql \in Limits, cl \in Limits,
        f \in PendingOutcomes :
       call' = [ NoCall EXCEPT !.op = "awaiting-load", !.queryEmbedding = e,
                               !.queryText = t, !.qaLimit = ql, !.contextLimit = cl,
                               !.fetch = f ]
  /\ UNCHANGED << store, token, proc >>

\* the fetch settles and the function resumes and runs to its return
FetchSettles ==
  /\ call.op = "awaiting-load"
  /\ call.fetch \in FetchOutcomes
  /\ \E r \in { retrieveMatchesWithContext(loadKb(call.fetch, store), call.queryEmbedding,
                                           call.qaLimit, call.contextLimit,
                                           call.queryText) } :
       call' = [ call EXCEPT !.op = "retrieveMatchesWithContext", !.threw = r.threw,
                             !.qaMatches = r.qaMatches,
                             !.contextMatches = r.contextMatches ]
  /\ UNCHANGED << store, token, proc >>

AwaitNext ==
  \/ BeginRetrieve
  \/ FetchSettles

\* a suspended function is resumed once the promise it awaits has settled:
\* weak fairness of FetchSettles
AwaitSpec == AwaitInit /\ [][AwaitNext]_vars /\ WF_vars(FetchSettles)

\* ------------------------------------------------------------------ C21
\* a step of the program that returns the call with empty matches, not raising
ReturnsEmpty ==
  /\ AwaitNext
  /\ call'.op = "retrieveMatchesWithContext"
  /\ ~call'.threw
  /\ call'.qaMatches = <<>> /\ call'.contextMatches = <<>>

\* C21: the load is bounded by a timeout: a call whose fetch of the corpus is
\* never answered still returns eventually, with empty qaMatches and
\* contextMatches and without raising. For that, a step returning the empty
\* matches must at least be possible while the call waits on a store that
\* does not answer.
C21_LoadTimeout ==
  (call.op = "awaiting-load" /\ call.fetch = NoResponse) => ENABLED ReturnsEmpty

\* ------------------------------------------------------------ getEmbedding
(***************************************************************************)
(* What the embeddings endpoint does with the request, [kind, emb]:        *)
(*   "network-error"      fetch rejects                                    *)
(*   "http-error"         a response that is not ok, its text readable     *)
(*   "http-unreadable"    a response that is not ok, resp.text() rejects   *)
(*   "unparseable"        resp.json() rejects                              *)
(*   "null"               the body is JSON null                            *)
(*   "no-data"            data.data is no array                            *)
(*   "empty-data"         data.data is []                                  *)
(*   "no-embedding"       data.data[0] is null or has no embedding         *)
(*   "embedding-no-array" data.data[0].embedding is a non-empty string     *)
(*   "embedding"          data.data[0].embedding is the array emb          *)
(***************************************************************************)
EmbedFailureKinds ==
  { "network-error", "http-error", "http-unreadable", "unparseable", "null",
    "no-data", "empty-data", "no-embedding", "embedding-no-array" }

EmbedResponse(kind, emb) == [ kind |-> kind, emb |-> emb ]

EmbedReturned(value) == [ threw |-> FALSE, value |-> value ]
EmbedRaised == [ threw |-> TRUE, value |-> <<>> ]

\* emb.map((n) => Number(n) || 0)
NumbersOf(emb) == [ i \in DOMAIN emb |-> NumberOrZero(emb[i]) ]

\* the body of the try block, for one response: [threw, value]
EmbedTryBody(response) ==
  CASE response.kind = "network-error"      -> EmbedRaised            \* await fetch
    [] response.kind = "http-error"         -> EmbedReturned(<<>>)    \* !resp.ok
    [] response.kind = "http-unreadable"    -> EmbedReturned(<<>>)    \* text().catch
    [] response.kind = "unparseable"        -> EmbedReturned(<<>>)    \* json().catch: null
    [] response.kind = "null"               -> EmbedReturned(<<>>)    \* !data
    [] response.kind = "no-data"            -> EmbedReturned(<<>>)
    [] response.kind = "empty-data"         -> EmbedReturned(<<>>)    \* data.data[0]?.
    [] response.kind = "no-embedding"       -> EmbedReturned(<<>>)
    [] response.kind = "embedding-no-array" -> EmbedReturned(<<>>)    \* Array.isArray(emb)
    [] OTHER                                -> EmbedReturned(NumbersOf(response.emb))

\* catch (err) { return [] }
EmbedCatch(r) == IF r.threw THEN EmbedReturned(<<>>) ELSE r

\* embed bug variant: the request is sent outside the try block
getEmbeddingUncaught(hasKey, text, response) ==
  IF ~hasKey THEN EmbedReturned(<<>>)
  ELSE IF applyAliases(trim(text)) = <<>> THEN EmbedReturned(<<>>)
  ELSE EmbedTryBody(response)

\* getEmbedding(text) with or without OPENAI_API_KEY: [threw, value]
getEmbedding(hasKey, text, response) ==
  IF ~hasKey THEN EmbedReturned(<<>>)
  ELSE IF applyAliases(trim(text)) = <<>> THEN EmbedReturned(<<>>)
  ELSE EmbedCatch(EmbedTryBody(response))

MaxDim == 2

\* the texts callers embed and the entries a provider can send
EmbedTexts == { <<>>, Str_blank, Str_fee, Str_LSW, Str_planPadded }
EmbedEntries == { Num(1), Num(0), Num(0 - 2), NotANumber }
EmbedResponses ==
  { EmbedResponse(k, <<>>) : k \in EmbedFailureKinds }
    \cup { EmbedResponse("embedding", e) : e \in SeqsUpTo(EmbedEntries, MaxDim) }

EmbedInit ==
  /\ store = <<>>
  /\ call = NoCall
  /\ token = FALSE
  /\ proc = [ p \in Procs |-> Idle ]

\* a call of getEmbedding
CallGetEmbedding ==
  /\ call.op = "none"
  /\ \E hasKey \in BOOLEAN, text \in EmbedTexts, response \in EmbedResponses :
       \E r \in { getEmbedding(hasKey, text, response) } :
         call' = [ op |-> "getEmbedding", hasKey |-> hasKey, text |-> text,
                   response |-> response, threw |-> r.threw, value |-> r.value ]
  /\ UNCHANGED << store, token, proc >>

EmbedNext ==
  \/ CallGetEmbedding
  \/ Return

EmbedSpec == EmbedInit /\ [][EmbedNext]_vars

\* ------------------------------------------------------------------ C22
\* every entry of the array is a number
AllNumbers(emb) == \A i \in DOMAIN emb : emb[i].isNum

\* the call is one of the failures the claim lists
EmbedFailure(c) ==
  \/ ~c.hasKey
  \/ trim(c.text) = <<>>
  \/ c.response.kind \in EmbedFailureKinds

\* C22: getEmbedding never raises; without an API key, for empty or blank
\* input, on a network error, a response that is not ok, or an unparseable or
\* malformed payload it returns []; on success it returns the numbers the
\* provider sent
C22_EmbedNeverThrows ==
  call.op = "getEmbedding" =>
    /\ ~call.threw
    /\ EmbedFailure(call) => call.value = <<>>
    /\ (~EmbedFailure(call) /\ AllNumbers(call.response.emb))
         => ( /\ Len(call.value) = Len(call.response.emb)
              /\ \A i \in DOMAIN call.value : call.value[i] = call.response.emb[i].v )

\* a call with a key and a text whose request failed on the network
C22_Witness ==
  /\ call.op = "getEmbedding" /\ call.hasKey /\ trim(call.text) # <<>>
  /\ call.response.kind = "network-error"
  /\ ~call.threw /\ call.value = <<>>

\* ------------------------------------------------------- cosine on its own
MaxVec == 3

\* the numeric vectors cosine is applied to
VectorEntries == { Num(0 - 2), Num(0), Num(1), Num(3) }
Vectors == SeqsUpTo(VectorEntries, MaxVec)

CosineInit ==
  /\ store = <<>>
  /\ call = NoCall
  /\ token = FALSE
  /\ proc = [ p \in Procs |-> Idle ]

\* cosine applied to a pair of vectors, both ways round, and to the first
\* vector and itself
CallCosine ==
  /\ call.op = "none"
  /\ \E a \in Vectors, b \in Vectors :
       call' = [ op |-> "cosine", a |-> a, b |-> b, ab |-> cosine(a, b),
                 ba |-> cosine(b, a), aa |-> cosine(a, a) ]
  /\ UNCHANGED << store, token, proc >>

CosineNext ==
  \/ CallCosine
  \/ Return

CosineSpec == CosineInit /\ [][CosineNext]_vars

\* ------------------------------------------------------------------ C23
\* some entry of the vector is not zero
NonZero(v) == \E i \in DOMAIN v : NumberOrZero(v[i]) # 0

\* C23: for non-zero vectors a and b of equal length cosine(a, b) equals
\* cosine(b, a), and cosine(a, a) is 1 (1000 thousandths)
C23_CosineSymmetric ==
  ( /\ call.op = "cosine"
    /\ Len(call.a) = Len(call.b)
    /\ NonZero(call.a) /\ NonZero(call.b) )
    => (call.ab = call.ba /\ call.aa = 1000)

\* two different non-zero vectors of length MaxVec that are neither parallel
\* nor orthogonal
C23_Witness ==
  /\ call.op = "cosine"
  /\ Len(call.a) = MaxVec /\ Len(call.b) = MaxVec
  /\ NonZero(call.a) /\ NonZero(call.b) /\ call.a # call.b
  /\ call.ab = call.ba /\ call.ab > 0 /\ call.ab < 1000 /\ call.aa = 1000

\* -------------------------------------- abbreviations in queries and records
Str_LSWs == << "L","S","W","s" >>
Str_lsws == << "l","s","w","s" >>
Str_socialWorker == << "l","i","c","e","n","s","e","d"," ","s","o","c","i","a","l"," ",
                       "w","o","r","k","e","r" >>
Str_SocialWorkers == << "L","i","c","e","n","s","e","d"," ","S","o","c","i","a","l"," ",
                        "W","o","r","k","e","r","s" >>

\* a text with the abbreviation and the same text with the abbreviation
\* written out: LSW is a licensed social worker, LSWs are licensed social
\* workers
AliasTextPairs ==
  { << Str_LSW, Str_socialWorker >>,
    << Str_LSWs, FullForm >>,
    << Str_LSWs, Str_SocialWorkers >>,
    << Str_lsws, FullForm >>,
    << Str_LSW \o <<" ">> \o Str_fee, Str_socialWorker \o <<" ">> \o Str_fee >>,
    << Str_fee \o <<" ">> \o Str_LSWs, Str_fee \o <<" ">> \o FullForm >>,
    << Str_fee, Str_fee >> }

\* a record that uses the abbreviation and the same record in full form
AliasRowPairs ==
  { << Row("qa", p[1], Str_plan, <<>>, ArrayEmbedding(<<Num(1), Num(0)>>), Str_doc),
       Row("qa", p[2], Str_plan, <<>>, ArrayEmbedding(<<Num(1), Num(0)>>), Str_doc) >> :
      p \in AliasTextPairs }
  \cup
  { << Row("context", <<>>, <<>>, p[1], NoEmbedding, Str_doc),
       Row("context", <<>>, <<>>, p[2], NoEmbedding, Str_doc) >> :
      p \in AliasTextPairs }

AliasQueryEmbeddings == { ArrayEmbedding(<<>>), ArrayEmbedding(<<Num(1), Num(0)>>) }

ModeOf(x) == IF x.kind = "context" THEN "context" ELSE "qa"

AliasInit ==
  /\ store = <<>>
  /\ call = NoCall
  /\ token = FALSE
  /\ proc = [ p \in Procs |-> Idle ]

\* the map callback of scoreRowsForQuery applied to a record and a query, to
\* the record and the query written out, and to the record written out and
\* the query
CallScoreRow ==
  /\ call.op = "none"
  /\ \E q \in AliasTextPairs, x \in AliasRowPairs, e \in AliasQueryEmbeddings :
       call' = [ op |-> "scoreRow", query |-> q, row |-> x, queryEmbedding |-> e,
                 scored |-> ScoreRow(x[1], e, q[1], ModeOf(x[1])),
                 queryInFull |-> ScoreRow(x[1], e, q[2], ModeOf(x[1])),
                 rowInFull |-> ScoreRow(x[2], e, q[1], ModeOf(x[2])) ]
  /\ UNCHANGED << store, token, proc >>

AliasNext ==
  \/ CallScoreRow
  \/ Return

AliasSpec == AliasInit /\ [][AliasNext]_vars

\* ------------------------------------------------------------------ C24
\* C24: a query with the abbreviation and the same query written out in full
\* give every candidate the same lexicalScore, and a record that uses the
\* abbreviation scores the same as the record written out in full
C24_AliasEquivalence ==
  call.op = "scoreRow" =>
    /\ call.queryInFull.lexicalScore = call.scored.lexicalScore
    /\ call.rowInFull.lexicalScore = call.scored.lexicalScore
    /\ call.rowInFull.semanticScore = call.scored.semanticScore
    /\ call.rowInFull.score = call.scored.score

\* ------------------------------------------------------------------ C25
\* C25: qaMatches never holds two records with the same normalized question
\* and the same normalized answer
C25_MatchesDeduplicated ==
  call.op = "retrieveMatchesWithContext" =>
    \A i, j \in DOMAIN call.qaMatches :
      ( /\ norm(call.qaMatches[i].question) = norm(call.qaMatches[j].question)
        /\ norm(call.qaMatches[i].answer) = norm(call.qaMatches[j].answer) ) => i = j

\* ------------------------------------------- the file-backed store (kbStore)
(***************************************************************************)
(* The file system under the directory of KB_PATH:                         *)
(*   store = [kb, tmp, files]                                              *)
(* kb and tmp are the directory entries kb.json and kb.json.tmp, each the  *)
(* number of a file or 0 when there is no such entry; files[n] is file n,  *)
(* [head, len]: head is the item list whose JSON text was last written at  *)
(* offset 0 (NoText before any write) and len the length of the file.  An  *)
(* open handle stays with its file when the entry is renamed.              *)
(***************************************************************************)
NoText == << 0 >>

\* length of JSON.stringify(items, null, 2): it grows with the list
TextLen(items) == 2 + 4 * Len(items)

EmptyFile == [ head |-> NoText, len |-> 0 ]
FileOf(items) == [ head |-> items, len |-> TextLen(items) ]

\* the item lists callers save
SavedLists == { << 1 >>, << 2, 2 >> }
InitialList == << 3 >>

\* fs.readFile + JSON.parse + Array.isArray inside try/catch: the items, or []
\* when kb.json is missing or its text is no JSON array
ReadKbFile(fs) ==
  IF fs.kb = 0 THEN <<>>                                       \* ENOENT: catch
  ELSE IF fs.files[fs.kb].head = NoText THEN <<>>              \* empty text: catch
  ELSE IF fs.files[fs.kb].len # TextLen(fs.files[fs.kb].head) THEN <<>>   \* catch
  ELSE fs.files[fs.kb].head

\* open(tmpPath, "w"): the file the entry names, truncated, or a new file
OpenedTmp(fs) == IF fs.tmp = 0 THEN Len(fs.files) + 1 ELSE fs.tmp
OpenTruncate(fs) ==
  IF fs.tmp = 0
  THEN [ fs EXCEPT !.tmp = Len(fs.files) + 1, !.files = Append(fs.files, EmptyFile) ]
  ELSE [ fs EXCEPT !.files[fs.tmp] = EmptyFile ]

\* write(fd, text) at offset 0
WriteText(fs, fd, items) ==
  [ fs EXCEPT !.files[fd] = [ head |-> items,
                              len |-> Max(fs.files[fd].len, TextLen(items)) ] ]

\* fs.rename(tmpPath, kbPath): ENOENT when there is no kb.json.tmp
Rename(fs) ==
  IF fs.tmp = 0 THEN [ threw |-> TRUE, fs |-> fs ]
  ELSE [ threw |-> FALSE, fs |-> [ fs EXCEPT !.kb = fs.tmp, !.tmp = 0 ] ]

FileInit ==
  /\ store \in { [ kb |-> 0, tmp |-> 0, files |-> <<>> ],
                 [ kb |-> 1, tmp |-> 0, files |-> << FileOf(InitialList) >> ] }
  /\ call = NoCall
  /\ token = FALSE
  /\ proc = [ p \in Procs |-> Idle ]

\* kbStore.saveKb(items) up to the open inside fs.writeFile
SaveOpen(p) ==
  /\ proc[p].pc = "idle"
  /\ \E items \in SavedLists :
       proc' = [ proc EXCEPT ![p] = [ pc |-> "write", items |-> items,
                                      fd |-> OpenedTmp(store), threw |-> FALSE ] ]
  /\ store' = OpenTruncate(store)
  /\ UNCHANGED << call, token >>

\* the write and close inside fs.writeFile
SaveWrite(p) ==
  /\ proc[p].pc = "write"
  /\ store' = WriteText(store, proc[p].fd, proc[p].items)
  /\ proc' = [ proc EXCEPT ![p].pc = "rename" ]
  /\ UNCHANGED << call, token >>

\* fs.rename and the return of saveKb
SaveRename(p) ==
  /\ proc[p].pc = "rename"
  /\ \E r \in { Rename(store) } :
       /\ store' = r.fs
       /\ proc' = [ proc EXCEPT ![p].pc = "done", ![p].threw = r.threw ]
  /\ UNCHANGED << call, token >>

\* kbStore.loadKb()
CallLoadKbFile ==
  /\ call.op = "none"
  /\ call' = [ op |-> "loadKb", items |-> ReadKbFile(store) ]
  /\ UNCHANGED << store, token, proc >>

FileNext ==
  \/ \E p \in Procs : SaveOpen(p)
  \/ \E p \in Procs : SaveWrite(p)
  \/ \E p \in Procs : SaveRename(p)
  \/ CallLoadKbFile
  \/ Return

FileSpec == FileInit /\ [][FileNext]_vars

\* ------------------------------------------------------------------ C26
\* C26: writes of the file-backed store are atomic: every loadKb returns []
\* or the complete list of one saveKb call (or the list stored at the start),
\* and no saveKb call fails
C26_AtomicWrites ==
  /\ call.op = "loadKb" => call.items \in { <<>>, InitialList } \cup SavedLists
  /\ \A p \in Procs : proc[p].pc = "done" => ~proc[p].threw

\* ------------------------------------------------------------------ C27
\* the loaded records of each kind that pass the filter of their kind
EligibleQaRows ==
  { i \in DOMAIN Loaded : isQaKind(Loaded[i]) /\ QaUsable(PrepareQa(Loaded[i])) }
EligibleContextRows ==
  { i \in DOMAIN Loaded :
      isContextKind(Loaded[i]) /\ ContextUsable(PrepareContext(Loaded[i])) }

\* C27: retrieval never suppresses a record because of another one: each kind
\* returns min(limit, number of eligible records) matches, and every match is
\* its stored record scored on its own
C27_NoSuppression ==
  (IsRetrieve /\ Returned) =>
    /\ Len(call.qaMatches) = Min(call.qaLimit, Cardinality(EligibleQaRows))
    /\ Len(call.contextMatches) = Min(call.contextLimit, Cardinality(EligibleContextRows))
    /\ \A k \in DOMAIN call.qaMatches :
         call.qaMatches[k] = ScoreRow(PrepareQa(Loaded[call.qaMatches[k].pos]),
                                      call.queryEmbedding, call.queryText, "qa")

\* two records with the same question and different answers, both returned
C27_Witness ==
  /\ IsRetrieve /\ Returned
  /\ Len(call.qaMatches) = 2
  /\ call.qaMatches[1].question = call.qaMatches[2].question
  /\ call.qaMatches[1].answer # call.qaMatches[2].answer
  /\ call.queryText # <<>>

\* ------------------------------------------------------------------ C28
\* call p repeats call q: q has saved, nothing else has written since, and p
\* was made with the same arguments and has loaded what q saved
RepeatsCall(p, q) ==
  /\ p # q
  /\ proc[q].pc = "done" /\ proc[q].wrote
  /\ proc[p].pc = "save"
  /\ proc[p].question = proc[q].question /\ proc[p].newAnswer = proc[q].newAnswer
  /\ proc[p].source = proc[q].source /\ proc[p].embedding = proc[q].embedding
  /\ store = proc[q].kb
  /\ proc[p].before = store /\ proc[p].loaded = store

\* C28: updateOrInsertAnswer is idempotent: the save of a call that repeats
\* the call before it, with the same question, answer and source, leaves the
\* stored corpus as the first call left it
C28_UpsertIdempotent ==
  [][ \A p, q \in Procs :
        (RepeatsCall(p, q) /\ UpsertSaveStep(p) /\ proc'[p].wrote) => store' = store ]_vars

\* ------------------------------------------------------------------ C29
\* a record of the output that the first pass rewrote
RewrittenByFirstPass ==
  \E i \in DOMAIN call.items :
    /\ isQaKind(call.items[i])
    /\ call.items[i] # WithPos(store)[call.items[i].pos]

\* C29: sanitizeKb without the classifier pass is idempotent: applied to its
\* own output with the same options it returns that output unchanged, the same
\* records in the same order.
C29_SanitizeIdempotent == Sanitized => call.again = call.items

\* a first pass that dropped a record, rewrote a QA record and kept a context
\* record, so the second pass is handed an array that differs from the input
C29_Witness ==
  /\ Sanitized
  /\ Len(call.items) >= 2
  /\ Len(call.items) < Len(store)
  /\ RewrittenByFirstPass
  /\ OutContext # <<>>
  /\ call.again = call.items

\* ------------------------------------------------------------------ C30
\* input record i of a sanitizeKb call has no record in the output
OmittedFromOutput(i) == \A j \in DOMAIN call.items : call.items[j].pos # i

\* the hygiene filters of the call reject input record x
RejectedByHygiene(x) ==
  ~PassesHardFilters(NormalizeQa(x), MinAnswerLenOf(call.opts))

\* input record i repeats the key of an earlier QA record the filters let through
RepeatsEarlierKey(i) ==
  \E k \in 1 .. i - 1 :
    /\ isQaKind(store[k])
    /\ ~RejectedByHygiene(store[k])
    /\ DedupKey(NormalizeQa(store[k])) = DedupKey(NormalizeQa(store[i]))

\* C30: every record is exactly one of QA (kind absent or "qa") or context
\* (kind "context"), and the output of sanitizeKb omits an input record only
\* if it is a QA record that the hygiene filters reject or that duplicates an
\* earlier one.
C30_KindPartition ==
  Sanitized =>
    \A i \in DOMAIN store :
      /\ isQaKind(store[i]) # isContextKind(store[i])
      /\ OmittedFromOutput(i) =>
           /\ isQaKind(store[i])
           /\ RejectedByHygiene(store[i]) \/ RepeatsEarlierKey(i)

====
